---- MODULE Spec2Model ----
(***************************************************************************)
(* Model of one invocation of zerox (node-zerox/src, the page-processing   *)
(* orchestration pipeline): validation, worker-pool and temp-directory     *)
(* acquisition, the OCR phase (sequential format-continuity loop or the    *)
(* pLimit-bounded fan-out), the extraction phase, page renumbering, the    *)
(* summary, and the finally block.                                         *)
(*                                                                         *)
(* Strings that the program concatenates or measures (page content, error  *)
(* text) are sequences of symbols, so that length and emptiness are        *)
(* computed.  Every await of the source is a point where the action ends;  *)
(* the code between two awaits of one async function is one action, and    *)
(* the continuations that run in the same microtask drain (the release of  *)
(* a limiter slot, the admission of the next queued task, the settling of  *)
(* Promise.all and the finally block) belong to the action that triggers   *)
(* them.                                                                   *)
(***************************************************************************)
EXTENDS Integers, Sequences, FiniteSets, TLC

\* ------------------------------------------------------------------ bounds

MaxImages == 2        \* images the rasterizer may produce
MaxPageNo == 3        \* largest page number a selector may name
MaxConcurrency == 2   \* largest concurrency budget tried
MaxAttempts == 2      \* largest attempt budget tried

\* ------------------------------------------------------- program constants

AllPages == -1            \* the default of pagesToConvertAsImages
DefaultConcurrency == 10  \* the default of concurrency
DefaultMaxRetries == 1    \* the default of maxRetries

\* --------------------------------------------------------------- variables

VARIABLES
  \* arguments of zerox
  cleanup, concurrency, correctOrientation, credentials, errorMode,
  extractOnly, extractPerPage, filePath, maintainFormat, maxRetries,
  onPostProcess, onPreProcess, openaiAPIKey, pagesToConvertAsImages, schema,
  \* locals of zerox
  pc, error, scheduler, tempDirectory, imagePaths,
  pages, priorPage, inputTokenCount, outputTokenCount,
  numSuccessfulOCRRequests, numFailedOCRRequests,
  numSuccessfulExtractionRequests, numFailedExtractionRequests,
  extracted, result,
  \* the page tasks (one call of processOCR each) and the limiter
  ocr, activeCount, queue,
  \* the extraction tasks
  extractionTasks

argVars == <<cleanup, concurrency, correctOrientation, errorMode, extractOnly,
             extractPerPage, filePath, maintainFormat, maxRetries,
             onPostProcess, onPreProcess, openaiAPIKey, schema>>
ocrVars == <<pages, priorPage, numSuccessfulOCRRequests, numFailedOCRRequests,
             ocr, activeCount, queue>>
exVars == <<numSuccessfulExtractionRequests, numFailedExtractionRequests,
            extracted, extractionTasks>>
tokenVars == <<inputTokenCount, outputTokenCount>>
vars == <<argVars, credentials, pagesToConvertAsImages, pc, error, scheduler,
          tempDirectory, imagePaths, ocrVars, exVars, tokenVars, result>>

\* ------------------------------------------------------------ plain values

\* null / undefined of the source, and an unassigned slot of a sparse array
Null == [null |-> TRUE]

Thrown(message) == [message |-> message]

\* the error a failed completion attempt rejects with: told apart by the page
\* and the number of the attempt that produced it
CompletionError(pageNumber, attempt) ==
  [message |-> "completion failed", page |-> pageNumber, attempt |-> attempt]

\* the same for a failed extraction attempt
ExtractionError(pageNumber, attempt) ==
  [message |-> "extraction failed", page |-> pageNumber, attempt |-> attempt]

Range(s) == {s[k] : k \in DOMAIN s}

\* Array.prototype.sort((a, b) => a - b): insertion into an ascending prefix
RECURSIVE Insert(_, _)
Insert(x, s) ==
  IF s = <<>> THEN <<x>>
  ELSE IF x - Head(s) <= 0 THEN <<x>> \o s
  ELSE <<Head(s)>> \o Insert(x, Tail(s))

RECURSIVE SortAscending(_)
SortAscending(s) ==
  IF s = <<>> THEN <<>> ELSE Insert(Head(s), SortAscending(Tail(s)))

ArraySet_Push(arr, i, v) == Append(arr, v)

\* arr[i] = v on a JavaScript array (i is one-based here): the array grows to
\* hold index i and the slots skipped stay unassigned
ArraySet(arr, i, v) ==
  [k \in 1..(IF i > Len(arr) THEN i ELSE Len(arr)) |->
     IF k = i THEN v ELSE IF k <= Len(arr) THEN arr[k] ELSE Null]

\* ------------------------------------------------------------------ inputs

\* pagesToConvertAsImages is a number or an array of numbers
Selector(isArray, value) == [isArray |-> isArray, value |-> value]

RECURSIVE DistinctSeqs(_, _)
DistinctSeqs(S, n) ==
  IF n = 0 THEN {<<>>}
  ELSE {<<x>> \o t : x \in S, t \in DistinctSeqs(S, n - 1)} \ 
       {s \in {<<x>> \o t : x \in S, t \in DistinctSeqs(S, n - 1)} :
          Head(s) \in Range(Tail(s))}

Selectors ==
  {Selector(FALSE, AllPages)}
  \cup {Selector(FALSE, n) : n \in 1..MaxPageNo}
  \cup {Selector(TRUE, l) :
          l \in UNION {DistinctSeqs(1..MaxPageNo, n) : n \in 1..MaxImages}}

\* the fields an extraction schema may hold; "p" is annotated per-page
Fields == {"p", "f"}
PerPageAnnotated == {"p"}
Schemas == {Null} \cup {[properties |-> S] : S \in SUBSET Fields}

\* what the OCR completion call may report for one page
OCRResponses ==
  { [content |-> <<>>, inputTokens |-> 0, outputTokens |-> 0],
    [content |-> <<"a">>, inputTokens |-> 1, outputTokens |-> 2],
    [content |-> <<"b", "b">>, inputTokens |-> 2, outputTokens |-> 1] }

\* the argument records an invocation is started with
Args(a) ==
  /\ cleanup = a.cleanup
  /\ concurrency = a.concurrency
  /\ correctOrientation = a.correctOrientation
  /\ credentials = a.credentials
  /\ errorMode = a.errorMode
  /\ extractOnly = a.extractOnly
  /\ extractPerPage = a.extractPerPage
  /\ filePath = a.filePath
  /\ maintainFormat = a.maintainFormat
  /\ maxRetries = a.maxRetries
  /\ onPostProcess = a.onPostProcess
  /\ onPreProcess = a.onPreProcess
  /\ openaiAPIKey = a.openaiAPIKey
  /\ pagesToConvertAsImages = a.pagesToConvertAsImages
  /\ schema = a.schema

\* a plain call: the defaults of the destructured parameters (the hooks, the
\* schema and the per-page override default to undefined), with credentials
\* and a file path supplied
BaseArgs ==
  [ cleanup |-> TRUE,
    concurrency |-> DefaultConcurrency,
    correctOrientation |-> TRUE,
    credentials |-> <<"key">>,
    errorMode |-> "IGNORE",
    extractOnly |-> FALSE,
    extractPerPage |-> FALSE,
    filePath |-> "file",
    maintainFormat |-> FALSE,
    maxRetries |-> DefaultMaxRetries,
    onPostProcess |-> FALSE,
    onPreProcess |-> FALSE,
    openaiAPIKey |-> "",
    pagesToConvertAsImages |-> Selector(FALSE, AllPages),
    schema |-> Null ]

ErrorModes == {"IGNORE", "THROW"}
Concurrencies == (1..MaxConcurrency) \cup {DefaultConcurrency}
AttemptBudgets == 1..MaxAttempts

\* Object.values of the credentials a caller may pass: the default
\* {apiKey: ""}, an OpenAI key, Bedrock credentials with only a region
CredentialValues == {<<"">>, <<"key">>, <<"", "region">>}

\* The calls explored.  Each family varies the arguments one part of the
\* pipeline reads, over a plain call.
SchedulerInputs ==
  {[BaseArgs EXCEPT !.maintainFormat = m, !.errorMode = e, !.concurrency = c,
                    !.maxRetries = r] :
     m \in BOOLEAN, e \in ErrorModes, c \in Concurrencies,
     r \in AttemptBudgets}

HookInputs ==
  {[BaseArgs EXCEPT !.maintainFormat = m, !.errorMode = e,
                    !.onPreProcess = h1, !.onPostProcess = h2] :
     m \in BOOLEAN, e \in ErrorModes, h1 \in BOOLEAN, h2 \in BOOLEAN}
  \cup
  {[BaseArgs EXCEPT !.concurrency = 1, !.errorMode = e,
                    !.onPreProcess = TRUE, !.onPostProcess = TRUE] :
     e \in ErrorModes}

ValidationInputs ==
  {[BaseArgs EXCEPT !.credentials = c, !.openaiAPIKey = k, !.filePath = f,
                    !.extractOnly = x, !.maintainFormat = m, !.schema = s] :
     c \in CredentialValues, k \in {"", "key"}, f \in {"", "file"},
     x \in BOOLEAN, m \in BOOLEAN,
     s \in {Null, [properties |-> Fields \ PerPageAnnotated]}}

SelectorInputs ==
  {[BaseArgs EXCEPT !.pagesToConvertAsImages = sel, !.maintainFormat = m] :
     sel \in Selectors, m \in BOOLEAN}

ExtractionInputs ==
  {[BaseArgs EXCEPT !.extractOnly = TRUE, !.schema = s, !.extractPerPage = o,
                    !.maxRetries = r] :
     s \in Schemas \ {Null}, o \in BOOLEAN, r \in AttemptBudgets}
  \cup
  {[BaseArgs EXCEPT !.schema = [properties |-> Fields], !.errorMode = e,
                    !.maintainFormat = m] :
     e \in ErrorModes, m \in BOOLEAN}
  \cup
  {[BaseArgs EXCEPT !.extractOnly = TRUE, !.schema = [properties |-> Fields],
                    !.concurrency = c] :
     c \in 1..MaxConcurrency}
  \cup
  {[BaseArgs EXCEPT !.schema = [properties |-> PerPageAnnotated],
                    !.pagesToConvertAsImages = sel] :
     sel \in {Selector(TRUE, <<2, 3>>), Selector(FALSE, 2)}}

ResourceInputs ==
  {[BaseArgs EXCEPT !.cleanup = c, !.correctOrientation = o, !.errorMode = e] :
     c \in BOOLEAN, o \in BOOLEAN, e \in ErrorModes}

Inputs ==
  SchedulerInputs \cup HookInputs \cup ValidationInputs \cup SelectorInputs
  \cup ExtractionInputs \cup ResourceInputs

\* -------------------------------------------------------------------- Init

Init ==
  /\ \E a \in Inputs : Args(a)
  /\ pc = "validate"
  /\ error = Null
  /\ scheduler = "null"
  /\ tempDirectory = "none"
  /\ imagePaths = <<>>
  /\ pages = <<>>
  /\ priorPage = <<>>
  /\ inputTokenCount = 0
  /\ outputTokenCount = 0
  /\ numSuccessfulOCRRequests = 0
  /\ numFailedOCRRequests = 0
  /\ numSuccessfulExtractionRequests = 0
  /\ numFailedExtractionRequests = 0
  /\ extracted = Null
  /\ result = Null
  /\ ocr = <<>>
  /\ activeCount = 0
  /\ queue = <<>>
  /\ extractionTasks = <<>>

\* ------------------------------------------------- validation and staging

\* Object.values(credentials).every((credential) => !credential)
EveryCredentialEmpty(c) == \A k \in DOMAIN c : c[k] = ""

\* the openaiAPIKey shortcut: a non-empty key replaces the credentials
EffectiveCredentials(key, c) == IF key # "" THEN <<key>> ELSE c

ValidationError_NoModeCheck(c, path, only, sch, keep) ==
  IF EveryCredentialEmpty(c) THEN Thrown("Missing credentials")
  ELSE IF path = "" THEN Thrown("Missing file path")
  ELSE IF only /\ sch = Null
    THEN Thrown("Schema is required for extraction mode")
  ELSE Null

\* the validators, in the order of the source; Null when all pass
ValidationError(c, path, only, sch, keep) ==
  IF EveryCredentialEmpty(c) THEN Thrown("Missing credentials")
  ELSE IF path = "" THEN Thrown("Missing file path")
  ELSE IF only /\ sch = Null
    THEN Thrown("Schema is required for extraction mode")
  ELSE IF only /\ keep
    THEN Thrown("Maintain format is only supported in OCR mode")
  ELSE Null

\* the finally block: the scheduler is terminated when there is one
Finally(s) == IF correctOrientation /\ s # "null" THEN "terminated" ELSE s

\* the validators throw before the try statement is entered
Validate ==
  /\ pc = "validate"
  /\ credentials' = EffectiveCredentials(openaiAPIKey, credentials)
  /\ LET e == ValidationError(credentials', filePath, extractOnly, schema,
                              maintainFormat)
     IN /\ error' = e
        /\ pc' = IF e = Null THEN "scheduler" ELSE "rejected"
  /\ UNCHANGED <<argVars, pagesToConvertAsImages, scheduler, tempDirectory,
                 imagePaths, ocrVars, exVars, tokenVars, result>>

\* getTesseractScheduler and the initial workers, when orientation is corrected
CreateScheduler ==
  /\ pc = "scheduler"
  /\ scheduler' = IF correctOrientation THEN "active" ELSE "null"
  /\ pc' = "stage"
  /\ UNCHANGED <<argVars, credentials, pagesToConvertAsImages, error,
                 tempDirectory, imagePaths, ocrVars, exVars, tokenVars, result>>

\* ensureDir and downloadFile; a download that yields no local path throws
\* inside the try statement, so the finally block runs
Stage ==
  /\ pc = "stage"
  /\ tempDirectory' = "exists"
  /\ \/ /\ pc' = "convert"
        /\ UNCHANGED <<error, scheduler>>
     \/ /\ pc' = "rejected"
        /\ error' = Thrown("Failed to save file to local drive")
        /\ scheduler' = Finally(scheduler)
  /\ UNCHANGED <<argVars, credentials, pagesToConvertAsImages, imagePaths,
                 ocrVars, exVars, tokenVars, result>>

SortSelector_Unsorted(sel) == sel

\* pagesToConvertAsImages.sort((a, b) => a - b) when it is an array
SortSelector(sel) ==
  IF sel.isArray THEN Selector(TRUE, SortAscending(sel.value)) ELSE sel

\* how many images there can be: a .png input is one image; the rasterizer
\* emits one image per requested page, in page order
ImageCounts(sel) ==
  IF sel.isArray THEN {1, Len(sel.value)}
  ELSE IF sel.value = AllPages THEN 1..MaxImages
  ELSE {1}

\* a page task that processOCR has not been called for.  attempt counts the
\* calls of the completion operation, priorPage is the context the last call
\* carried, rawResponse what runRetries returned, caught the error it threw,
\* page the page built, progressSummary the snapshot handed to the
\* post-processing hook
NewTask ==
  [pc |-> "new", attempt |-> 0, priorPage |-> <<>>, rawResponse |-> Null,
   caught |-> Null, page |-> Null, progressSummary |-> Null]

\* the selector is sorted in place, the images are produced and the workers
\* are prepared
Convert ==
  /\ pc = "convert"
  /\ pagesToConvertAsImages' = SortSelector(pagesToConvertAsImages)
  /\ \E n \in ImageCounts(pagesToConvertAsImages) :
       /\ imagePaths' = [k \in 1..n |-> k]
       /\ ocr' = [k \in 1..n |-> NewTask]
  /\ pc' = "ocr-start"
  /\ UNCHANGED <<argVars, credentials, error, scheduler, tempDirectory, pages,
                 priorPage, numSuccessfulOCRRequests, numFailedOCRRequests,
                 activeCount, queue, exVars, tokenVars, result>>

\* ------------------------------------------------------------ the limiter

\* a task the limiter has called: processOCR runs up to its first await
Started(tasks, i) == [tasks EXCEPT ![i].pc = "read"]

HasFreeSlot_OffByOne(active, limit) == active <= limit

\* pLimit's admission test
HasFreeSlot(active, limit) == active < limit

\* the n deferred admission checks that follow n calls of limit(): each starts
\* the head of the queue when a slot is free
RECURSIVE PLimitDrain(_, _)
PLimitDrain(k, st) ==
  IF k = 0 THEN st
  ELSE IF HasFreeSlot(st.activeCount, concurrency) /\ st.queue # <<>>
    THEN PLimitDrain(k - 1,
           [activeCount |-> st.activeCount + 1,
            queue |-> Tail(st.queue),
            tasks |-> Started(st.tasks, Head(st.queue))])
  ELSE PLimitDrain(k - 1, st)

PLimitNext_NoDequeue(st) ==
  [activeCount |-> st.activeCount - 1, queue |-> st.queue, tasks |-> st.tasks]

\* pLimit's next(), run when a task's promise settles: the slot is given
\* back and the head of the queue, if any, is started
PLimitNext(st) ==
  IF st.queue # <<>>
    THEN [activeCount |-> st.activeCount,
          queue |-> Tail(st.queue),
          tasks |-> Started(st.tasks, Head(st.queue))]
  ELSE [activeCount |-> st.activeCount - 1,
        queue |-> st.queue,
        tasks |-> st.tasks]

\* ------------------------------------------------------------ the OCR phase

\* the page tasks start: none in extraction-only mode, the first one in
\* format-continuity mode, as many as the limiter admits otherwise
StartOCR ==
  /\ pc = "ocr-start"
  /\ IF extractOnly
       THEN /\ pc' = "extraction-start"
            /\ UNCHANGED <<ocr, activeCount, queue>>
     ELSE IF maintainFormat
       THEN /\ pc' = "ocr"
            /\ ocr' = Started(ocr, 1)
            /\ UNCHANGED <<activeCount, queue>>
     ELSE LET n == Len(imagePaths)
              st == PLimitDrain(n,
                      [activeCount |-> 0,
                       queue |-> [k \in 1..n |-> k],
                       tasks |-> [k \in 1..n |-> [ocr[k] EXCEPT !.pc = "queued"]]])
          IN /\ pc' = "ocr"
             /\ ocr' = st.tasks
             /\ activeCount' = st.activeCount
             /\ queue' = st.queue
  /\ UNCHANGED <<argVars, credentials, pagesToConvertAsImages, error, scheduler,
                 tempDirectory, imagePaths, pages, priorPage,
                 numSuccessfulOCRRequests, numFailedOCRRequests, exVars,
                 tokenVars, result>>

\* the first call of the operation handed to runRetries: the request carries
\* the value priorPage has when the call is made
IssueRequest(tasks, i) ==
  [tasks EXCEPT ![i].pc = "request", ![i].attempt = 1, ![i].priorPage = priorPage]

\* readFile and cleanupImage have returned; the pre-processing hook, when
\* there is one, is awaited before the first completion call
ImageReady(i) ==
  /\ i \in DOMAIN ocr
  /\ ocr[i].pc = "read"
  /\ ocr' = IF onPreProcess THEN [ocr EXCEPT ![i].pc = "pre"]
            ELSE IssueRequest(ocr, i)
  /\ UNCHANGED <<argVars, credentials, pagesToConvertAsImages, pc, error,
                 scheduler, tempDirectory, imagePaths, pages, priorPage,
                 numSuccessfulOCRRequests, numFailedOCRRequests, activeCount,
                 queue, exVars, tokenVars, result>>

PreProcessed(i) ==
  /\ i \in DOMAIN ocr
  /\ ocr[i].pc = "pre"
  /\ ocr' = IssueRequest(ocr, i)
  /\ UNCHANGED <<argVars, credentials, pagesToConvertAsImages, pc, error,
                 scheduler, tempDirectory, imagePaths, pages, priorPage,
                 numSuccessfulOCRRequests, numFailedOCRRequests, activeCount,
                 queue, exVars, tokenVars, result>>

LoopEnds_NoBreak(p, i) == i + 1 > Len(imagePaths)

\* the sequential loop stops after an ERROR page and after the last image
LoopEnds(p, i) == p.status = "ERROR" \/ i + 1 > Len(imagePaths)

TaskFulfils_NoBarrier(tasks, i, p) ==
  LET done == [tasks EXCEPT ![i].pc = "fulfilled", ![i].page = p]
      st == IF maintainFormat
              THEN [activeCount |-> activeCount, queue |-> queue,
                    tasks |-> IF LoopEnds(p, i) THEN done ELSE Started(done, i + 1)]
            ELSE PLimitNext([activeCount |-> activeCount, queue |-> queue,
                             tasks |-> done])
  IN /\ pages' = IF maintainFormat THEN Append(pages, p) ELSE ArraySet(pages, i, p)
     /\ ocr' = st.tasks
     /\ activeCount' = st.activeCount
     /\ queue' = st.queue
     /\ pc' = IF pc = "ocr" THEN "extraction-start" ELSE pc
     /\ UNCHANGED <<error, scheduler>>

\* the promise of page task i fulfils with page p.  tasks is ocr with the
\* task's own last changes.  Format-continuity mode: the page is pushed, then
\* the loop ends on an ERROR page or after the last image, else the next
\* task is called.  Bounded mode: the page is stored at the task's index, the
\* slot is given back, and Promise.all fulfils when every task has.
TaskFulfils(tasks, i, p) ==
  IF maintainFormat
    THEN /\ pages' = Append(pages, p)
         /\ LET done == [tasks EXCEPT ![i].pc = "fulfilled", ![i].page = p]
                last == LoopEnds(p, i)
            IN /\ ocr' = IF last THEN done ELSE Started(done, i + 1)
               /\ pc' = IF last THEN "extraction-start" ELSE pc
         /\ UNCHANGED <<activeCount, queue, error, scheduler>>
  ELSE LET done == [tasks EXCEPT ![i].pc = "fulfilled", ![i].page = p]
           st == PLimitNext([activeCount |-> activeCount, queue |-> queue,
                             tasks |-> done])
           all == \A k \in DOMAIN st.tasks : st.tasks[k].pc = "fulfilled"
       IN /\ pages' = ArraySet(pages, i, p)
          /\ ocr' = st.tasks
          /\ activeCount' = st.activeCount
          /\ queue' = st.queue
          /\ pc' = IF pc = "ocr" /\ all THEN "extraction-start" ELSE pc
          /\ UNCHANGED <<error, scheduler>>

TaskRejects_StallsLimiter(tasks, i, e) ==
  /\ ocr' = [tasks EXCEPT ![i].pc = "rejected"]
  /\ UNCHANGED <<activeCount, queue, pages>>
  /\ IF pc = "ocr"
       THEN /\ pc' = "rejected"
            /\ error' = e
            /\ scheduler' = Finally(scheduler)
     ELSE UNCHANGED <<pc, error, scheduler>>

\* the promise of page task i rejects with e: the await of the OCR phase
\* throws, the finally block runs and the invocation rejects; in bounded
\* mode the slot is given back and the other tasks go on
TaskRejects(tasks, i, e) ==
  LET failed == [tasks EXCEPT ![i].pc = "rejected"]
      st == IF maintainFormat
              THEN [activeCount |-> activeCount, queue |-> queue, tasks |-> failed]
            ELSE PLimitNext([activeCount |-> activeCount, queue |-> queue,
                             tasks |-> failed])
  IN /\ ocr' = st.tasks
     /\ activeCount' = st.activeCount
     /\ queue' = st.queue
     /\ IF pc = "ocr"
          THEN /\ pc' = "rejected"
               /\ error' = e
               /\ scheduler' = Finally(scheduler)
        ELSE UNCHANGED <<pc, error, scheduler>>
     /\ UNCHANGED pages

\* runRetries: after a failed attempt the operation is called again while
\* the attempt budget is not used up
AttemptsRemain(attempt, maxAttempts) == attempt < maxAttempts

OCRAttemptBudget_OneMore == maxRetries + 1

\* the budget the page task hands to runRetries
OCRAttemptBudget == maxRetries

\* CompletionProcessor.process in OCR mode: the response with its length
ProcessOCR(raw) ==
  [content |-> raw.content, contentLength |-> Len(raw.content),
   inputTokens |-> raw.inputTokens, outputTokens |-> raw.outputTokens]

\* isCompletionResponse(OperationMode.OCR, response)
IsCompletionResponse(response) == "content" \in DOMAIN response

SuccessPage(response, pageNumber) ==
  [content |-> response.content, contentLength |-> response.contentLength,
   inputTokens |-> response.inputTokens, outputTokens |-> response.outputTokens,
   page |-> pageNumber, status |-> "SUCCESS"]

\* `Failed to process page ${pageNumber}: ${error}`
ErrorText(pageNumber, e) == <<"Failed to process page ", pageNumber, ": ", e>>

ErrorPage(pageNumber, e) ==
  [content |-> <<>>, contentLength |-> 0, error |-> ErrorText(pageNumber, e),
   page |-> pageNumber, status |-> "ERROR"]

InputTokensAfter_Swapped(count, response) == count + response.outputTokens

\* inputTokenCount += response.inputTokens, outputTokenCount += response.outputTokens
InputTokensAfter(count, response) == count + response.inputTokens
OutputTokensAfter(count, response) == count + response.outputTokens

NextPriorPage_Stale(response) == priorPage

\* priorPage advances to the content of a completion response
NextPriorPage(response) ==
  IF IsCompletionResponse(response) THEN response.content ELSE priorPage

Rethrows_Never(mode) == FALSE

\* the catch block rethrows under the THROW policy
Rethrows(mode) == mode = "THROW"

ProgressSummary_BeforeCount(successful, failed) ==
  [totalPages |-> Len(imagePaths),
   ocr |-> [successful |-> 0, failed |-> 0],
   extraction |-> Null]

\* the progressSummary argument of onPostProcess
ProgressSummary(successful, failed) ==
  [totalPages |-> Len(imagePaths),
   ocr |-> [successful |-> successful, failed |-> failed],
   extraction |-> Null]

PageBuilt_SkipsHook(tasks, i, p) == TaskFulfils(tasks, i, p)

\* the page is built: the post-processing hook, when there is one, is called
\* with the page and the counters as they are now, and awaited before
\* processOCR returns the page
PageBuilt(tasks, i, p) ==
  IF onPostProcess
    THEN /\ ocr' = [tasks EXCEPT
                      ![i].pc = "post", ![i].page = p,
                      ![i].progressSummary =
                        ProgressSummary(numSuccessfulOCRRequests',
                                        numFailedOCRRequests')]
         /\ UNCHANGED <<pages, activeCount, queue, pc, error, scheduler>>
  ELSE TaskFulfils(tasks, i, p)

\* a completion attempt of page task i returns raw: runRetries returns it,
\* the counters and priorPage are updated and the SUCCESS page is built
CompletionSucceeds(i) ==
  /\ i \in DOMAIN ocr
  /\ ocr[i].pc = "request"
  /\ UNCHANGED numFailedOCRRequests
  /\ \E raw \in OCRResponses :
       LET response == ProcessOCR(raw)
       IN /\ inputTokenCount' = InputTokensAfter(inputTokenCount, response)
          /\ outputTokenCount' = OutputTokensAfter(outputTokenCount, response)
          /\ priorPage' = NextPriorPage(response)
          /\ numSuccessfulOCRRequests' = numSuccessfulOCRRequests + 1
          /\ PageBuilt([ocr EXCEPT ![i].rawResponse = raw], i,
                       SuccessPage(response, i))
  /\ UNCHANGED <<argVars, credentials, pagesToConvertAsImages, tempDirectory,
                 imagePaths, exVars, result>>

\* a completion attempt of page task i fails: runRetries calls the operation
\* again, or rethrows; processOCR rethrows under THROW and builds the ERROR
\* page under IGNORE
CompletionFails(i) ==
  /\ i \in DOMAIN ocr
  /\ ocr[i].pc = "request"
  /\ UNCHANGED numSuccessfulOCRRequests
  /\ IF AttemptsRemain(ocr[i].attempt, OCRAttemptBudget)
       THEN /\ ocr' = [ocr EXCEPT ![i].attempt = @ + 1, ![i].priorPage = priorPage]
            /\ UNCHANGED <<pages, activeCount, queue, pc, error, scheduler,
                           numFailedOCRRequests>>
     ELSE LET e == CompletionError(i, ocr[i].attempt)
              caught == [ocr EXCEPT ![i].caught = e]
          IN IF Rethrows(errorMode)
               THEN /\ TaskRejects(caught, i, e)
                    /\ UNCHANGED numFailedOCRRequests
             ELSE /\ numFailedOCRRequests' = numFailedOCRRequests + 1
                  /\ PageBuilt(caught, i, ErrorPage(i, e))
  /\ UNCHANGED <<argVars, credentials, pagesToConvertAsImages, tempDirectory,
                 imagePaths, priorPage, exVars, tokenVars, result>>

\* the post-processing hook has returned: processOCR returns the page
PostProcessed(i) ==
  /\ i \in DOMAIN ocr
  /\ ocr[i].pc = "post"
  /\ TaskFulfils(ocr, i, ocr[i].page)
  /\ UNCHANGED <<argVars, credentials, pagesToConvertAsImages, tempDirectory,
                 imagePaths, priorPage, numSuccessfulOCRRequests,
                 numFailedOCRRequests, exVars, tokenVars, result>>

\* an awaited call outside the try statement of processOCR fails (readFile,
\* cleanupImage or a hook): processOCR rejects whatever the error mode
TaskThrows(i) ==
  /\ i \in DOMAIN ocr
  /\ ocr[i].pc \in {"read", "pre", "post"}
  /\ TaskRejects(ocr, i, Thrown(ocr[i].pc))
  /\ UNCHANGED <<argVars, credentials, pagesToConvertAsImages, tempDirectory,
                 imagePaths, priorPage, numSuccessfulOCRRequests,
                 numFailedOCRRequests, exVars, tokenVars, result>>

\* ----------------------------------------------------- the extraction phase

\* JavaScript values of an extracted mapping: a scalar or an array
Scalar(x) == [scalar |-> x]
Array(items) == [array |-> items]
IsArray(v) == "array" \in DOMAIN v

\* splitSchema: the fields annotated per-page (all of them under the
\* override) and the others; a part without fields is null
SplitSchema(sch, override) ==
  LET perPage == IF override THEN sch.properties
                 ELSE sch.properties \cap PerPageAnnotated
      fullDoc == sch.properties \ perPage
  IN [perPageSchema |-> IF perPage = {} THEN Null ELSE [properties |-> perPage],
      fullDocSchema |-> IF fullDoc = {} THEN Null ELSE [properties |-> fullDoc]]

\* what the extraction completion call may report for a schema: each field
\* null, a scalar or an array; the token counts differ with the fields found
ExtractionResponses(sch) ==
  { [extracted |-> f,
     inputTokens |-> 1 + Cardinality({k \in DOMAIN f : f[k] # Null}),
     outputTokens |-> Cardinality({k \in DOMAIN f : f[k] # Null})] :
    f \in [sch.properties -> {Null, Scalar("x"), Array(<<"y">>)}] }

\* pages.map((page, i) => i === 0 ? page.content : "\n<hr><hr>\n" + page.content).join("")
RECURSIVE JoinPages(_, _)
JoinPages(ps, i) ==
  IF i > Len(ps) THEN <<>>
  ELSE (IF i = 1 THEN ps[i].content ELSE <<"\n<hr><hr>\n">> \o ps[i].content)
       \o JoinPages(ps, i + 1)

\* the per-page inputs: the image of each page in extraction-only mode, the
\* content of each page otherwise
PerPageInputs ==
  IF extractOnly THEN [k \in DOMAIN imagePaths |-> <<imagePaths[k]>>]
  ELSE [k \in DOMAIN pages |-> pages[k].content]

FullDocInput == IF extractOnly THEN imagePaths ELSE JoinPages(pages, 1)

ExtractionTask(kind, input, pageNumber, sch) ==
  [kind |-> kind, input |-> input, pageNumber |-> pageNumber, schema |-> sch,
   pc |-> "request", attempt |-> 1, response |-> Null, result |-> Null]

\* the tasks in the order they are pushed: the per-page tasks, then the
\* full-document task; each has issued its first completion call
NewExtractionTasks(split) ==
  (IF split.perPageSchema = Null THEN <<>>
   ELSE [k \in DOMAIN PerPageInputs |->
           ExtractionTask("page", PerPageInputs[k], k, split.perPageSchema)])
  \o (IF split.fullDocSchema = Null THEN <<>>
      ELSE <<ExtractionTask("doc", FullDocInput, 0, split.fullDocSchema)>>)

MergeResult_Replace(acc, r) ==
  [k \in DOMAIN acc \cup DOMAIN r |-> IF k \in DOMAIN r THEN r[k] ELSE acc[k]]

\* one step of the reduce: a key not yet truthy becomes an empty array, an
\* array value is pushed onto it, any other value replaces it
MergeResult(acc, r) ==
  [k \in DOMAIN acc \cup DOMAIN r |->
     IF k \notin DOMAIN r THEN acc[k]
     ELSE IF IsArray(r[k])
       THEN Array((IF k \in DOMAIN acc THEN acc[k].array ELSE <<>>) \o r[k].array)
     ELSE r[k]]

RECURSIVE Reduce(_, _)
Reduce(acc, rs) ==
  IF rs = <<>> THEN acc ELSE Reduce(MergeResult(acc, Head(rs)), Tail(rs))

\* the empty object the reduce starts from
EmptyObject == [k \in {} |-> Null]

\* Promise.all(extractionTasks) fulfils: the results are folded in task order
Aggregate(tasks) == Reduce(EmptyObject, [k \in DOMAIN tasks |-> tasks[k].result])

AllFulfilled(tasks) == \A k \in DOMAIN tasks : tasks[k].pc = "fulfilled"

\* the extraction tasks are created, when a schema was supplied
StartExtraction ==
  /\ pc = "extraction-start"
  /\ IF schema = Null
       THEN /\ pc' = "finish"
            /\ UNCHANGED <<extractionTasks, extracted>>
     ELSE LET tasks == NewExtractionTasks(SplitSchema(schema, extractPerPage))
          IN /\ extractionTasks' = tasks
             /\ IF tasks = <<>>
                  THEN /\ extracted' = Aggregate(tasks)
                       /\ pc' = "finish"
                ELSE /\ pc' = "extraction"
                     /\ UNCHANGED extracted
  /\ UNCHANGED <<argVars, credentials, pagesToConvertAsImages, error, scheduler,
                 tempDirectory, imagePaths, ocrVars,
                 numSuccessfulExtractionRequests, numFailedExtractionRequests,
                 tokenVars, result>>

\* the keys of the schema whose value is neither null nor undefined, each as
\* one {page, value} entry
PerPageResult(sch, response, pageNumber) ==
  [k \in {key \in sch.properties : response.extracted[key] # Null} |->
     Array(<<[page |-> pageNumber, value |-> response.extracted[k]]>>)]

\* extraction task j fulfils
ExtractionFulfils(tasks) ==
  /\ extractionTasks' = tasks
  /\ IF pc = "extraction" /\ AllFulfilled(tasks)
       THEN /\ extracted' = Aggregate(tasks)
            /\ pc' = "finish"
     ELSE UNCHANGED <<extracted, pc>>
  /\ UNCHANGED <<error, scheduler>>

ExtractionRejects_CancelsSiblings(tasks, e) ==
  /\ extractionTasks' =
       [k \in DOMAIN tasks |->
          IF tasks[k].pc = "request" THEN [tasks[k] EXCEPT !.pc = "cancelled"]
          ELSE tasks[k]]
  /\ pc' = "rejected"
  /\ error' = e
  /\ scheduler' = Finally(scheduler)
  /\ UNCHANGED extracted

\* extraction task j rejects: Promise.all rejects with the first rejection
ExtractionRejects(tasks, e) ==
  /\ extractionTasks' = tasks
  /\ IF pc = "extraction"
       THEN /\ pc' = "rejected"
            /\ error' = e
            /\ scheduler' = Finally(scheduler)
     ELSE UNCHANGED <<pc, error, scheduler>>
  /\ UNCHANGED extracted

\* a completion call of extraction task j returns
ExtractionSucceeds(j) ==
  /\ j \in DOMAIN extractionTasks
  /\ extractionTasks[j].pc = "request"
  /\ LET t == extractionTasks[j]
     IN \E response \in ExtractionResponses(t.schema) :
          /\ inputTokenCount' = InputTokensAfter(inputTokenCount, response)
          /\ outputTokenCount' = OutputTokensAfter(outputTokenCount, response)
          /\ numSuccessfulExtractionRequests' = numSuccessfulExtractionRequests + 1
          /\ ExtractionFulfils(
               [extractionTasks EXCEPT
                  ![j].pc = "fulfilled",
                  ![j].response = response,
                  ![j].result = IF t.kind = "page"
                                  THEN PerPageResult(t.schema, response, t.pageNumber)
                                ELSE response.extracted])
  /\ UNCHANGED <<argVars, credentials, pagesToConvertAsImages, tempDirectory,
                 imagePaths, ocrVars, numFailedExtractionRequests, result>>

\* the attempts an extraction task may make: the per-page task runs in
\* runRetries, the full-document task calls getCompletion once
ExtractionAttemptBudget(kind) == IF kind = "page" THEN maxRetries ELSE 1

\* a completion call of extraction task j fails
ExtractionFails(j) ==
  /\ j \in DOMAIN extractionTasks
  /\ extractionTasks[j].pc = "request"
  /\ LET t == extractionTasks[j]
     IN IF AttemptsRemain(t.attempt, ExtractionAttemptBudget(t.kind))
          THEN /\ extractionTasks' = [extractionTasks EXCEPT ![j].attempt = @ + 1]
               /\ UNCHANGED <<numFailedExtractionRequests, extracted, pc, error,
                              scheduler>>
        ELSE /\ numFailedExtractionRequests' = numFailedExtractionRequests + 1
             /\ ExtractionRejects([extractionTasks EXCEPT ![j].pc = "rejected"],
                                  ExtractionError(t.pageNumber, t.attempt))
  /\ UNCHANGED <<argVars, credentials, pagesToConvertAsImages, tempDirectory,
                 imagePaths, ocrVars, numSuccessfulExtractionRequests,
                 tokenVars, result>>

\* ------------------------------------------------------------- the result

\* the caller-facing number of the page at one-based position i
CorrectPageNumber(sel, i) ==
  IF ~sel.isArray /\ sel.value = AllPages THEN i
  ELSE IF sel.isArray THEN sel.value[i]
  ELSE sel.value

FormatPage(sel, page, i) == [page EXCEPT !.page = CorrectPageNumber(sel, i)]

FormattedPages(sel, ps) == [i \in DOMAIN ps |-> FormatPage(sel, ps[i], i)]

OCRSummary_Always(only, successful, failed) ==
  [successful |-> successful, failed |-> failed]

OCRSummary(only, successful, failed) ==
  IF ~only THEN [successful |-> successful, failed |-> failed] ELSE Null

ExtractionSummary(sch, successful, failed) ==
  IF sch # Null THEN [successful |-> successful, failed |-> failed] ELSE Null

\* the temp directory is removed when cleanup is set, the pages are
\* renumbered, the result is returned and the finally block runs
Finish ==
  /\ pc = "finish"
  /\ tempDirectory' = IF cleanup THEN "removed" ELSE tempDirectory
  /\ result' =
       [extracted |-> extracted,
        inputTokens |-> inputTokenCount,
        outputTokens |-> outputTokenCount,
        pages |-> FormattedPages(pagesToConvertAsImages, pages),
        summary |->
          [totalPages |-> Len(imagePaths),
           ocr |-> OCRSummary(extractOnly, numSuccessfulOCRRequests,
                              numFailedOCRRequests),
           extraction |-> ExtractionSummary(schema,
                            numSuccessfulExtractionRequests,
                            numFailedExtractionRequests)]]
  /\ scheduler' = Finally(scheduler)
  /\ pc' = "returned"
  /\ UNCHANGED <<argVars, credentials, pagesToConvertAsImages, error,
                 imagePaths, ocrVars, exVars, tokenVars>>

\* --------------------------------------------------------------- the system

Next ==
  \/ Validate
  \/ CreateScheduler
  \/ Stage
  \/ Convert
  \/ StartOCR
  \/ \E i \in 1..MaxImages : ImageReady(i)
  \/ \E i \in 1..MaxImages : PreProcessed(i)
  \/ \E i \in 1..MaxImages : CompletionSucceeds(i)
  \/ \E i \in 1..MaxImages : CompletionFails(i)
  \/ \E i \in 1..MaxImages : PostProcessed(i)
  \/ \E i \in 1..MaxImages : TaskThrows(i)
  \/ StartExtraction
  \/ \E j \in 1..(MaxImages + 1) : ExtractionSucceeds(j)
  \/ \E j \in 1..(MaxImages + 1) : ExtractionFails(j)
  \/ Finish

Spec == Init /\ [][Next]_vars

\* the invocation under the assumption that every awaited external call (an
\* image read, a hook, a completion request, the staging of the file) returns
\* or fails in the end: while a step can be taken, one is
FairSpec == Spec /\ WF_vars(Next)

\* ================================================================== claims

\* a page task between the call of processOCR and the settling of its promise
InFlight(t) == t.pc \in {"read", "pre", "request", "post"}
InFlightTasks == {i \in DOMAIN ocr : InFlight(ocr[i])}

\* the invocation has returned a result after an OCR phase
Returned == pc = "returned"
ReturnedAfterOCR == Returned /\ ~extractOnly

\* C1: in bounded-concurrency mode a returned result has exactly one page per
\* image, and the page at position i is the page that the task of image i
\* built (the outcome of image i, whatever the order of completion); only its
\* page number may have been rewritten by the renumbering.
C1_PagesFollowInputOrder ==
  (ReturnedAfterOCR /\ ~maintainFormat) =>
    /\ Len(result.pages) = Len(imagePaths)
    /\ Len(pages) = Len(imagePaths)
    /\ \A i \in DOMAIN imagePaths :
         /\ ocr[i].page # Null
         /\ ocr[i].page.page = i
         /\ pages[i] = ocr[i].page
         /\ [result.pages[i] EXCEPT !.page = i] = ocr[i].page

\* C1 witness: two pages with different contents were returned and the first
\* image was the last to complete (priorPage holds the content completed last)
C1_Witness ==
  /\ ReturnedAfterOCR /\ ~maintainFormat
  /\ Len(result.pages) = 2
  /\ result.pages[1].status = "SUCCESS" /\ result.pages[2].status = "SUCCESS"
  /\ result.pages[1].content # result.pages[2].content
  /\ priorPage = result.pages[1].content

\* C2: in bounded-concurrency mode the page tasks started and not yet settled
\* never outnumber the concurrency budget, and a queued task is started only
\* in a step in which another task settles.
C2_InFlightWithinBudget ==
  /\ [](~maintainFormat => Cardinality(InFlightTasks) <= concurrency)
  /\ [][ \A i \in DOMAIN ocr :
           (ocr[i].pc = "queued" /\ ocr'[i].pc # "queued") =>
             \E j \in DOMAIN ocr \ {i} : InFlight(ocr[j]) /\ ~InFlight(ocr'[j]) ]_vars

\* C2 witness: with a budget of one, the second task runs after the first
\* has settled and given its slot back
C2_Witness ==
  /\ ~maintainFormat /\ concurrency = 1
  /\ Len(ocr) = 2
  /\ ocr[1].pc = "fulfilled" /\ InFlight(ocr[2])

\* C3: in format-continuity mode, once the page at position k (zero-based
\* index k - 1) is an ERROR page, no task was started for a later image, no
\* per-page extraction request exists for one, the page list ends at k and a
\* returned result holds exactly k pages.
C3_StopsAtErrorPage ==
  maintainFormat =>
    \A k \in DOMAIN ocr :
      (ocr[k].page # Null /\ ocr[k].page.status = "ERROR") =>
        /\ \A j \in DOMAIN ocr : j > k => ocr[j] = NewTask
        /\ \A j \in DOMAIN extractionTasks :
             extractionTasks[j].kind = "page" => extractionTasks[j].pageNumber <= k
        /\ Len(pages) <= k
        /\ (ocr[k].pc = "fulfilled" => Len(pages) = k /\ pages[k] = ocr[k].page)
        /\ (Returned => Len(result.pages) = k)

\* C3 witness: a returned result of one ERROR page for two images
C3_Witness ==
  /\ maintainFormat /\ Returned
  /\ Len(imagePaths) = 2
  /\ Len(result.pages) = 1
  /\ result.pages[1].status = "ERROR"
  /\ ocr[2] = NewTask

\* C4: in format-continuity mode at most one page task is in flight, and the
\* context carried by the latest completion attempt of the page at position
\* i is the content of the SUCCESS page at position i - 1, the empty string
\* for the first page; every attempt, retries included, passes through it.
C4_OneTaskAndPriorPage ==
  maintainFormat =>
    /\ Cardinality(InFlightTasks) <= 1
    /\ \A i \in DOMAIN ocr :
         ocr[i].attempt >= 1 =>
           IF i = 1 THEN ocr[i].priorPage = <<>>
           ELSE /\ Len(pages) >= i - 1
                /\ pages[i - 1].status = "SUCCESS"
                /\ pages[i - 1].page = i - 1
                /\ ocr[i].priorPage = pages[i - 1].content

\* C4 witness: the retry of the second page carries a non-empty first page
C4_Witness ==
  /\ maintainFormat
  /\ Len(ocr) = 2
  /\ ocr[2].pc = "request" /\ ocr[2].attempt = 2
  /\ ocr[2].priorPage # <<>>

\* C5: a page whose completion call failed on every attempt is, under IGNORE,
\* an ERROR page with a non-empty error text, empty content and no token
\* counts; that failure is not what an invocation rejects with, and a
\* bounded-concurrency run that returns has processed every page.  Under
\* THROW the task rejects, the invocation is rejected without a result, and
\* when no other task has failed it rejects with that failure.
C5_ExhaustedCompletionPolicy ==
  \A i \in DOMAIN ocr :
    ocr[i].caught # Null =>
      IF errorMode = "IGNORE"
        THEN /\ ocr[i].page # Null
             /\ ocr[i].page.status = "ERROR"
             /\ Len(ocr[i].page.error) > 0
             /\ ocr[i].page.content = <<>>
             /\ DOMAIN ocr[i].page \cap {"inputTokens", "outputTokens"} = {}
             /\ (pc = "rejected" => error # ocr[i].caught)
             /\ (ReturnedAfterOCR /\ ~maintainFormat =>
                   \A j \in DOMAIN ocr :
                     ocr[j].pc = "fulfilled" /\ pages[j] = ocr[j].page)
      ELSE /\ ocr[i].pc = "rejected"
           /\ ocr[i].page = Null
           /\ pc = "rejected"
           /\ result = Null
           /\ ((\A j \in DOMAIN ocr \ {i} : ocr[j].pc # "rejected") =>
                 error = ocr[i].caught)

\* C5 witness: a returned bounded-concurrency result with an ERROR page
\* first and a SUCCESS page after it
C5_Witness ==
  /\ ReturnedAfterOCR /\ ~maintainFormat /\ errorMode = "IGNORE"
  /\ Len(result.pages) = 2
  /\ ocr[1].caught # Null
  /\ result.pages[1].status = "ERROR"
  /\ result.pages[2].status = "SUCCESS"

\* C6: the completion operation of a page is called at least once and at most
\* maxRetries times (exactly once for a budget of one); a response ends the
\* calls and is the page's content and counts; when every call failed the
\* error raised to the page task is the error of the last call.
C6_AttemptsWithinBudget ==
  /\ [](\A i \in DOMAIN ocr :
          /\ ocr[i].attempt <= maxRetries
          /\ (ocr[i].pc = "request" \/ ocr[i].rawResponse # Null
                \/ ocr[i].caught # Null) => ocr[i].attempt >= 1
          /\ (maxRetries = 1 /\ (ocr[i].rawResponse # Null \/ ocr[i].caught # Null))
               => ocr[i].attempt = 1
          /\ ocr[i].caught # Null =>
               /\ ocr[i].rawResponse = Null
               /\ ocr[i].attempt = maxRetries
               /\ ocr[i].caught = CompletionError(i, maxRetries)
          /\ ocr[i].rawResponse # Null =>
               /\ ocr[i].caught = Null
               /\ ocr[i].pc # "request"
               /\ ocr[i].page.status = "SUCCESS"
               /\ ocr[i].page.content = ocr[i].rawResponse.content
               /\ ocr[i].page.inputTokens = ocr[i].rawResponse.inputTokens
               /\ ocr[i].page.outputTokens = ocr[i].rawResponse.outputTokens)
  /\ [][\A i \in DOMAIN ocr :
          /\ ocr'[i].attempt <= ocr[i].attempt + 1
          /\ ocr[i].rawResponse # Null =>
               /\ ocr'[i].attempt = ocr[i].attempt
               /\ ocr'[i].rawResponse = ocr[i].rawResponse]_vars

\* C6 witness: a page whose two calls both failed, and the error of the
\* second call is in its error text
C6_Witness ==
  /\ maxRetries = 2
  /\ \E i \in DOMAIN ocr :
       /\ ocr[i].caught = CompletionError(i, 2)
       /\ ocr[i].page # Null
       /\ ocr[i].page.error = ErrorText(i, CompletionError(i, 2))

IsAscending(s) == \A a, b \in DOMAIN s : a < b => s[a] <= s[b]

AfterConvert ==
  pc \in {"ocr-start", "ocr", "extraction-start", "extraction", "finish", "returned"}

\* C7: the page at position i of a returned result is numbered i for the
\* all-pages selector, with the i-th element of the selector for a list, and
\* with the selector itself for a single number, and differs from the page
\* the scheduler collected in nothing else; a list selector is ascending by
\* then and holds the page numbers the caller supplied, whatever their order.
C7_PageNumbers ==
  /\ [](Returned =>
          /\ Len(result.pages) = Len(pages)
          /\ \A i \in DOMAIN result.pages :
               /\ result.pages[i].page =
                    (IF pagesToConvertAsImages.isArray
                       THEN pagesToConvertAsImages.value[i]
                     ELSE IF pagesToConvertAsImages.value = AllPages THEN i
                     ELSE pagesToConvertAsImages.value)
               /\ DOMAIN result.pages[i] = DOMAIN pages[i]
               /\ \A f \in DOMAIN pages[i] \ {"page"} :
                    result.pages[i][f] = pages[i][f])
  /\ []((AfterConvert /\ pagesToConvertAsImages.isArray) =>
          IsAscending(pagesToConvertAsImages.value))
  /\ [][ /\ pagesToConvertAsImages'.isArray = pagesToConvertAsImages.isArray
         /\ IF pagesToConvertAsImages.isArray
              THEN /\ Len(pagesToConvertAsImages'.value) =
                        Len(pagesToConvertAsImages.value)
                   /\ Range(pagesToConvertAsImages'.value) =
                        Range(pagesToConvertAsImages.value)
            ELSE pagesToConvertAsImages'.value = pagesToConvertAsImages.value ]_vars

\* C7 witness: two pages returned for a list selector, numbered 2 and 3
C7_Witness ==
  /\ Returned
  /\ pagesToConvertAsImages.isArray
  /\ Len(result.pages) = 2
  /\ result.pages[1].page = 2 /\ result.pages[2].page = 3

RECURSIVE SumSeq(_)
SumSeq(s) == IF s = <<>> THEN 0 ELSE Head(s) + SumSeq(Tail(s))

\* the counts reported to the OCR tasks and extraction tasks that succeeded
ReportedByOCR(field) ==
  SumSeq([i \in DOMAIN ocr |->
            IF ocr[i].rawResponse # Null THEN ocr[i].rawResponse[field] ELSE 0])
ReportedByExtraction(field) ==
  SumSeq([j \in DOMAIN extractionTasks |->
            IF extractionTasks[j].response # Null
              THEN extractionTasks[j].response[field] ELSE 0])

\* the counts carried by the SUCCESS pages of a page list
CarriedByPages(ps, field) ==
  SumSeq([i \in DOMAIN ps |->
            IF ps[i].status = "SUCCESS" THEN ps[i][field] ELSE 0])

\* C8: the token counters never decrease; at every moment they are the sums
\* of the counts reported to the successful OCR and extraction tasks (failed
\* attempts and failed tasks add nothing), and a returned result carries
\* these sums, the OCR part being the counts of its SUCCESS pages.
C8_TokenCounters ==
  /\ [](/\ inputTokenCount =
             ReportedByOCR("inputTokens") + ReportedByExtraction("inputTokens")
        /\ outputTokenCount =
             ReportedByOCR("outputTokens") + ReportedByExtraction("outputTokens")
        /\ Returned =>
             /\ result.inputTokens = inputTokenCount
             /\ result.outputTokens = outputTokenCount
             /\ \A j \in DOMAIN extractionTasks :
                  extractionTasks[j].response # Null
             /\ result.inputTokens =
                  CarriedByPages(result.pages, "inputTokens")
                  + ReportedByExtraction("inputTokens")
             /\ result.outputTokens =
                  CarriedByPages(result.pages, "outputTokens")
                  + ReportedByExtraction("outputTokens"))
  /\ [][ /\ inputTokenCount' >= inputTokenCount
         /\ outputTokenCount' >= outputTokenCount ]_vars

\* C8 witness: a returned result in which one page failed on both attempts
\* and the other succeeded on its second attempt
C8_Witness ==
  /\ Returned /\ maxRetries = 2
  /\ Len(ocr) = 2
  /\ ocr[1].caught # Null
  /\ ocr[2].rawResponse # Null /\ ocr[2].attempt = 2
  /\ result.inputTokens = ocr[2].rawResponse.inputTokens
  /\ result.inputTokens > 0

IsCounts(c) ==
  /\ DOMAIN c = {"successful", "failed"}
  /\ c.successful \in Nat
  /\ c.failed \in Nat

\* C9: in a returned summary the OCR counts are null exactly when no page
\* task was run (extraction-only mode), the extraction counts are null
\* exactly when no schema was supplied, and each is otherwise a pair of
\* counts.
C9_SummaryNullness ==
  Returned =>
    /\ (result.summary.ocr = Null) <=> extractOnly
    /\ (result.summary.ocr = Null) <=> (\A i \in DOMAIN ocr : ocr[i] = NewTask)
    /\ (result.summary.extraction = Null) <=> (schema = Null)
    /\ result.summary.ocr # Null => IsCounts(result.summary.ocr)
    /\ result.summary.extraction # Null => IsCounts(result.summary.extraction)

\* C9 witness: an extraction-only result: no OCR counts, extraction counts
C9_Witness ==
  /\ Returned /\ extractOnly
  /\ result.summary.ocr = Null
  /\ result.summary.extraction # Null
  /\ result.summary.extraction.successful > 0

\* the four configuration errors, read off the arguments
ConfigurationInvalid ==
  \/ openaiAPIKey = "" /\ \A k \in DOMAIN credentials : credentials[k] = ""
  \/ filePath = ""
  \/ extractOnly /\ schema = Null
  \/ extractOnly /\ maintainFormat

ConfigurationMessages ==
  {"Missing credentials", "Missing file path",
   "Schema is required for extraction mode",
   "Maintain format is only supported in OCR mode"}

NothingStarted ==
  /\ scheduler = "null"
  /\ tempDirectory = "none"
  /\ imagePaths = <<>>
  /\ ocr = <<>>
  /\ pages = <<>>
  /\ extractionTasks = <<>>
  /\ inputTokenCount = 0 /\ outputTokenCount = 0
  /\ result = Null

\* C10: an invocation with a configuration error is rejected by the
\* validators with the error's message, and nothing was started then or is
\* started later: no worker pool, no temp directory, no image, no page or
\* extraction task, no completion request; no step follows the rejection.
\* An invocation is rejected with such a message only for such an error.
C10_ConfigurationErrorsFailFast ==
  /\ [](ConfigurationInvalid =>
          /\ pc \in {"validate", "rejected"}
          /\ NothingStarted
          /\ pc = "rejected" => error.message \in ConfigurationMessages)
  /\ []((pc = "rejected" /\ error.message \in ConfigurationMessages) =>
          ConfigurationInvalid)
  /\ [][~(ConfigurationInvalid /\ pc = "rejected")]_vars

\* C10 witness: extraction-only with format continuity has been rejected
C10_Witness ==
  /\ pc = "rejected"
  /\ extractOnly /\ maintainFormat /\ schema # Null
  /\ error = Thrown("Maintain format is only supported in OCR mode")

\* an extraction task whose completion call is outstanding
ExtractionInFlight == {j \in DOMAIN extractionTasks : extractionTasks[j].pc = "request"}

ExtractionFailed == {j \in DOMAIN extractionTasks : extractionTasks[j].pc = "rejected"}

\* C11: a failed extraction task rejects the invocation whatever the error
\* mode: there is no result, and the invocation's error is that of the first
\* extraction task to fail.  The step in which a task fails leaves every
\* other extraction task as it was, and a task whose call is outstanding can
\* still receive its response or its failure, also after the rejection;
\* every task only ever ends fulfilled or rejected.
C11_ExtractionFailureRejects ==
  /\ [](ExtractionFailed # {} =>
          /\ pc = "rejected"
          /\ result = Null
          /\ extracted = Null
          /\ \E j \in ExtractionFailed :
               error = ExtractionError(extractionTasks[j].pageNumber,
                                       extractionTasks[j].attempt))
  /\ [](\A j \in DOMAIN extractionTasks :
          /\ extractionTasks[j].pc \in {"request", "fulfilled", "rejected"}
          /\ extractionTasks[j].pc = "request" =>
               ENABLED ExtractionSucceeds(j) /\ ENABLED ExtractionFails(j))
  /\ [][\A j, k \in DOMAIN extractionTasks :
          (j # k /\ extractionTasks[j].pc = "request"
             /\ extractionTasks'[j].pc = "rejected") =>
            extractionTasks'[k] = extractionTasks[k]]_vars

\* C11 witness: under IGNORE the invocation was rejected by the failure of
\* the full-document task, and a per-page task completed with its response
\* while another is still outstanding
C11_Witness ==
  /\ errorMode = "IGNORE" /\ pc = "rejected"
  /\ Len(extractionTasks) = 3
  /\ extractionTasks[3].kind = "doc" /\ extractionTasks[3].pc = "rejected"
  /\ extractionTasks[1].pc = "fulfilled"
  /\ extractionTasks[2].pc = "request"
  /\ error = ExtractionError(0, 1)

QueuedTasks == {i \in DOMAIN ocr : ocr[i].pc = "queued"}

\* C12: once the orientation worker pool has been terminated, no OCR page
\* task is running or waiting in the limiter and no extraction task has a
\* call outstanding.
C12_TerminatedAfterLastTask ==
  scheduler = "terminated" =>
    /\ InFlightTasks = {}
    /\ QueuedTasks = {}
    /\ ExtractionInFlight = {}

Exited == pc \in {"returned", "rejected"}

\* C13: when the invocation has returned or failed after its temp directory
\* was created, the directory has been removed if cleanup is enabled and the
\* worker pool has been terminated if orientation correction is enabled.
C13_TeardownOnEveryExit ==
  (Exited /\ tempDirectory # "none") =>
    /\ cleanup => tempDirectory = "removed"
    /\ correctOrientation => scheduler = "terminated"

PageTasks == {j \in DOMAIN extractionTasks : extractionTasks[j].kind = "page"}
DocTasks == {j \in DOMAIN extractionTasks : extractionTasks[j].kind = "doc"}

\* the {page, value} entries of field k, one for each per-page task from
\* task j on whose response has a value for k, in page order
RECURSIVE EntriesFrom(_, _)
EntriesFrom(k, j) ==
  IF j \notin PageTasks THEN <<>>
  ELSE (IF extractionTasks[j].response.extracted[k] # Null
          THEN <<[page |-> extractionTasks[j].pageNumber,
                  value |-> extractionTasks[j].response.extracted[k]]>>
        ELSE <<>>) \o EntriesFrom(k, j + 1)

PerPageFields ==
  {k \in UNION {extractionTasks[j].schema.properties : j \in PageTasks} :
     EntriesFrom(k, 1) # <<>>}
FullDocFields == UNION {extractionTasks[j].schema.properties : j \in DocTasks}

\* the mapping the responses determine, whatever the order they arrived in
ExpectedExtracted ==
  [k \in PerPageFields \cup FullDocFields |->
     IF k \in FullDocFields
       THEN extractionTasks[CHOOSE j \in DocTasks : TRUE].response.extracted[k]
     ELSE Array(EntriesFrom(k, 1))]

\* C14: the extracted mapping of a returned result is determined by the
\* responses alone, so it is the same for every order of completion: a
\* per-page field holds one {page, value} entry, in page order, for each
\* page whose response has a non-null value for it (and is absent when no
\* page has one), also when a task needed a retry; a full-document field
\* holds the value of the full-document response as it is.
C14_ExtractedIndependentOfOrder ==
  (Returned /\ schema # Null) =>
    /\ Cardinality(DocTasks) <= 1
    /\ PerPageFields \cap FullDocFields = {}
    /\ result.extracted = ExpectedExtracted

\* C14 witness: two per-page responses, the first after a retry, and a
\* full-document response with an array value
C14_Witness ==
  /\ Returned
  /\ Len(extractionTasks) = 3
  /\ extractionTasks[1].attempt = 2
  /\ result.extracted =
       [p |-> Array(<<[page |-> 1, value |-> Scalar("x")],
                      [page |-> 2, value |-> Array(<<"y">>)]>>),
        f |-> Array(<<"y">>)]

\* C15: in bounded-concurrency mode the context carried by the latest
\* completion request of every page task is the empty string.
C15_BoundedModeEmptyContext ==
  ~maintainFormat => \A i \in DOMAIN ocr : ocr[i].priorPage = <<>>

\* C16: under IGNORE no page task rejects and the invocation is not rejected
\* during the OCR phase: a failure while the image is read is retried and
\* ends, at worst, as an ERROR page.
C16_IgnoreAbsorbsPageFailures ==
  errorMode = "IGNORE" =>
    /\ \A i \in DOMAIN ocr : ocr[i].pc # "rejected"
    /\ pc = "rejected" => error.message \notin {"read", "pre", "post"}

\* C17: an extraction task of either track that has failed has used the
\* whole attempt budget.
C17_BothTracksRetried ==
  \A j \in ExtractionFailed : extractionTasks[j].attempt = maxRetries

\* the page of task i is in the page list
PageWritten(i) == i <= Len(pages) /\ pages[i] # Null

\* C18: with a pre-processing hook, the first completion call of a page task
\* is issued in the step in which the hook returns, and none while it runs;
\* with a post-processing hook, a page task fulfils only in the step in
\* which the hook returns, and while the hook runs the task's page is not in
\* the page list, the task still holds its slot of the limiter (so tasks
\* queued behind a full budget stay queued), and in format-continuity mode
\* the next page's task has not started.
C18_HooksAwaited ==
  /\ [][\A i \in DOMAIN ocr :
          /\ (onPreProcess /\ ocr[i].attempt = 0 /\ ocr'[i].attempt = 1) =>
               ocr[i].pc = "pre"
          /\ (onPostProcess /\ ocr[i].pc # "fulfilled"
                /\ ocr'[i].pc = "fulfilled") => ocr[i].pc = "post"]_vars
  /\ [](\A i \in DOMAIN ocr :
          /\ ocr[i].pc \in {"read", "pre"} => ocr[i].attempt = 0
          /\ PageWritten(i) => ocr[i].pc = "fulfilled"
          /\ ocr[i].pc = "post" =>
               /\ onPostProcess
               /\ ~PageWritten(i)
               /\ ~maintainFormat =>
                    /\ activeCount = Cardinality(InFlightTasks)
                    /\ QueuedTasks # {} => activeCount = concurrency
               /\ (maintainFormat /\ i + 1 \in DOMAIN ocr) => ocr[i + 1] = NewTask)

\* C18 witness: with both hooks and a budget of one, the first page's
\* post-processing hook is running after a completed call, and the second
\* page is still queued
C18_Witness ==
  /\ onPreProcess /\ onPostProcess /\ ~maintainFormat /\ concurrency = 1
  /\ Len(ocr) = 2
  /\ ocr[1].pc = "post" /\ ocr[1].rawResponse # Null
  /\ ocr[2].pc = "queued"
  /\ pages = <<>>

\* the step a page task in flight is waiting for can be taken
CanProceed(i) ==
  CASE ocr[i].pc = "read" -> ENABLED ImageReady(i) /\ ENABLED TaskThrows(i)
    [] ocr[i].pc = "pre" -> ENABLED PreProcessed(i) /\ ENABLED TaskThrows(i)
    [] ocr[i].pc = "request" -> ENABLED CompletionSucceeds(i) /\ ENABLED CompletionFails(i)
    [] ocr[i].pc = "post" -> ENABLED PostProcessed(i) /\ ENABLED TaskThrows(i)
    [] OTHER -> TRUE

\* C19: in bounded-concurrency mode the rejection of a page task, and of the
\* invocation with it, cancels nothing.  The step in which a task rejects
\* leaves every other task in flight as it was and starts the head of the
\* queue; a task in flight can always take its next step; tasks wait in the
\* queue only behind a full budget of running tasks, and leave it only by
\* being started.  All of it holds after the invocation has rejected as
\* before.
C19_SiblingsRunOn ==
  /\ [](~maintainFormat =>
          /\ activeCount = Cardinality(InFlightTasks)
          /\ Range(queue) = QueuedTasks
          /\ QueuedTasks # {} => Cardinality(InFlightTasks) = concurrency
          /\ \A i \in DOMAIN ocr :
               /\ ocr[i].pc \in {"new", "queued", "read", "pre", "request",
                                 "post", "fulfilled", "rejected"}
               /\ CanProceed(i))
  /\ [][~maintainFormat =>
          \A i \in DOMAIN ocr :
            /\ (ocr[i].pc = "queued" /\ ocr'[i].pc # "queued") => ocr'[i].pc = "read"
            /\ (ocr[i].pc # "rejected" /\ ocr'[i].pc = "rejected") =>
                 /\ \A k \in InFlightTasks \ {i} : ocr'[k] = ocr[k]
                 /\ queue # <<>> => ocr'[Head(queue)].pc = "read"]_vars

\* C19 witness: under THROW with a budget of one, the first page's
\* completion failure has rejected the invocation, and the second page,
\* queued until then, has its completion request outstanding
C19_Witness ==
  /\ errorMode = "THROW" /\ ~maintainFormat /\ concurrency = 1
  /\ Len(ocr) = 2
  /\ pc = "rejected" /\ error = ocr[1].caught
  /\ ocr[1].pc = "rejected"
  /\ ocr[2].pc = "request"

\* C20: during the extraction phase the completion requests outstanding
\* (per-page tasks and the full-document task together) never outnumber the
\* concurrency budget.
C20_ExtractionWithinBudget ==
  Cardinality(ExtractionInFlight) <= concurrency

PagesWithStatus(ps, status) == {i \in DOMAIN ps : ps[i].status = status}

\* C21: the OCR counts of a returned summary are the numbers of SUCCESS and
\* of ERROR pages of the result, and add up to the number of its pages; the
\* snapshot handed to a post-processing hook gives the number of images as
\* totalPages and counts between one and totalPages pages, the hook's own
\* page among them.
C21_SummaryCountsPages ==
  /\ ReturnedAfterOCR =>
       /\ result.summary.ocr.successful =
            Cardinality(PagesWithStatus(result.pages, "SUCCESS"))
       /\ result.summary.ocr.failed =
            Cardinality(PagesWithStatus(result.pages, "ERROR"))
       /\ result.summary.ocr.successful + result.summary.ocr.failed =
            Len(result.pages)
  /\ \A i \in DOMAIN ocr :
       /\ ocr[i].pc = "post" => ocr[i].progressSummary # Null
       /\ ocr[i].progressSummary # Null =>
            LET snapshot == ocr[i].progressSummary
            IN /\ onPostProcess
               /\ snapshot.totalPages = Len(imagePaths)
               /\ snapshot.ocr.successful + snapshot.ocr.failed >= 1
               /\ snapshot.ocr.successful + snapshot.ocr.failed <= snapshot.totalPages
               /\ IF ocr[i].page.status = "SUCCESS"
                    THEN snapshot.ocr.successful >= 1
                  ELSE snapshot.ocr.failed >= 1

\* C21 witness: a returned result of one ERROR and one SUCCESS page with the
\* counts 1 and 1; the hook of the first page was handed the counts of both
\* pages, the hook of the second page those of its own page only
C21_Witness ==
  /\ ReturnedAfterOCR /\ onPostProcess
  /\ Len(result.pages) = 2
  /\ result.pages[1].status = "ERROR" /\ result.pages[2].status = "SUCCESS"
  /\ result.summary.ocr = [successful |-> 1, failed |-> 1]
  /\ ocr[1].progressSummary.ocr = [successful |-> 1, failed |-> 1]
  /\ ocr[2].progressSummary.ocr = [successful |-> 1, failed |-> 0]

\* C22: in a returned result of a run with an OCR phase, every {page, value}
\* entry produced by the per-page extraction task of the page at position j
\* is tagged with the number the result gives to the page at position j.
C22_EntryTagsMatchPageNumbers ==
  (ReturnedAfterOCR /\ schema # Null) =>
    \A j \in PageTasks :
      \A k \in DOMAIN extractionTasks[j].result :
        \A n \in DOMAIN extractionTasks[j].result[k].array :
          /\ extractionTasks[j].result[k].array[n].page = result.pages[j].page
          /\ \E m \in DOMAIN result.extracted[k].array :
               result.extracted[k].array[m] = extractionTasks[j].result[k].array[n]

\* C23: while an extraction task exists in a run with an OCR phase, every
\* page task has fulfilled with a SUCCESS or ERROR page that is in the page
\* list, or (format-continuity mode, after an ERROR page) was never started;
\* the extraction inputs are the contents of these pages, which no later
\* step changes.  No extraction task exists while a page task is running or
\* queued, nor once a page task has rejected.
C23_OCRPhaseIsBarrier ==
  /\ []((extractionTasks # <<>> /\ ~extractOnly) =>
          /\ \A i \in DOMAIN ocr :
               \/ /\ ocr[i].pc = "fulfilled"
                  /\ ocr[i].page.status \in {"SUCCESS", "ERROR"}
                  /\ PageWritten(i) /\ pages[i] = ocr[i].page
               \/ /\ maintainFormat
                  /\ ocr[i] = NewTask
                  /\ i > Len(pages)
          /\ \A j \in PageTasks :
               /\ j <= Len(pages)
               /\ extractionTasks[j].input = pages[j].content
          /\ PageTasks # {} => Cardinality(PageTasks) = Len(pages)
          /\ \A j \in DocTasks : extractionTasks[j].input = JoinPages(pages, 1))
  /\ []((InFlightTasks # {} \/ QueuedTasks # {}
           \/ \E i \in DOMAIN ocr : ocr[i].pc = "rejected") =>
          /\ extractionTasks = <<>>
          /\ pc \in {"ocr", "rejected"})
  /\ [][extractionTasks # <<>> => (pages' = pages /\ ocr' = ocr)]_vars

\* C23 witness: in bounded-concurrency mode the second page completed before
\* the first, and the extraction requests of both pages and of the document
\* are outstanding with the final contents as inputs
C23_Witness ==
  /\ ~maintainFormat /\ ~extractOnly
  /\ Len(extractionTasks) = 3
  /\ \A j \in 1..3 : extractionTasks[j].pc = "request"
  /\ pages[1].content = <<"a">> /\ pages[2].content = <<"b", "b">>
  /\ priorPage = <<"a">>
  /\ extractionTasks[1].input = <<"a">>
  /\ extractionTasks[2].input = <<"b", "b">>
  /\ extractionTasks[3].input = <<"a", "\n<hr><hr>\n", "b", "b">>

Settled(i) == i \in DOMAIN ocr /\ ocr[i].pc \in {"fulfilled", "rejected"}

\* C24: when every awaited call returns or fails in the end, every
\* invocation returns a result or rejects in the end, and every page task
\* that waits in the limiter's queue ends fulfilled or rejected (under
\* IGNORE as under THROW; it leaves the queue only by being started).
C24_EveryInvocationEnds ==
  /\ <>Exited
  /\ \A i \in 1..MaxImages :
       (i \in DOMAIN ocr /\ ocr[i].pc = "queued") ~> Settled(i)

\* C24 witness: under IGNORE with a budget of one and two attempts, the
\* first page failed twice and the second page, queued until then, was
\* recognized on its second attempt; the invocation has returned
C24_Witness ==
  /\ Returned /\ ~maintainFormat /\ errorMode = "IGNORE"
  /\ concurrency = 1 /\ maxRetries = 2
  /\ Len(ocr) = 2
  /\ ocr[1].page.status = "ERROR" /\ ocr[1].attempt = 2
  /\ ocr[2].page.status = "SUCCESS" /\ ocr[2].attempt = 2

====
